---- MODULE Spec2Model ----
(***************************************************************************)
(* a1pubsub: the event-admission state machine of src/src/index.ts         *)
(* (PubSub.handlePubSubMessage over the InMemoryStateManager).             *)
(*                                                                         *)
(* JavaScript strings that the code takes apart or joins (subscription     *)
(* addresses, subscription names, message ids, ledger keys) are sequences  *)
(* of one-character strings.  Each admission is an async function: it runs *)
(* synchronously up to an await, and admissions interleave only at awaits. *)
(* The StateManager's operations and the handler return promises; the      *)
(* model resumes the admissions awaiting them in any order (a custom       *)
(* StateManager settles in any order; the in-memory one, whose operations  *)
(* read and write the Map when they are called, in the order of the calls).*)
(***************************************************************************)
EXTENDS Integers, Sequences, FiniteSets, TLC

\* ------------------------------------------------------------------ bounds

\* Admissions started in one behaviour.
MaxAdmissions == 2
\* Longest project id in the addresses given to the subscription resolver.
MaxProjectIdLen == 3
\* Largest value of the clock read by new Date().
MaxClock == 1
MaxPublishes == 2

\* The admission tasks that may run concurrently.
Tasks == {"t1", "t2"}

\* ----------------------------------------------------------------- strings

LowerOrDash ==
    {"a","b","c","d","e","f","g","h","i","j","k","l","m","n","o","p","q","r",
     "s","t","u","v","w","x","y","z","-"}

Digits == {"0","1","2","3","4","5","6","7","8","9"}

\* Characters the regular expression's . does not match.
LineTerminators == {"\n", "\r"}

ProjectsPrefix == <<"p","r","o","j","e","c","t","s","/">>

SubscriptionsInfix == <<"/","s","u","b","s","c","r","i","p","t","i","o","n","s","/">>

StartsWith(s, prefix) ==
    /\ Len(s) >= Len(prefix)
    /\ SubSeq(s, 1, Len(prefix)) = prefix

Drop(s, n) == SubSeq(s, n + 1, Len(s))

\* [a-z-]+\d* against a whole segment.
MatchesProjectId(seg) ==
    \E j \in 1..Len(seg) :
        /\ \A i \in 1..j : seg[i] \in LowerOrDash
        /\ \A i \in (j + 1)..Len(seg) : seg[i] \in Digits

\* The value null of getSubscription.
Null == [null |-> TRUE, value |-> <<>>]

NonNull(name) == [null |-> FALSE, value |-> name]

\* /^projects\/[a-z-]+\d*\/subscriptions\/(.+)$/ : returns the captured name.
\* Neither [a-z-] nor \d matches "/", so the project id ends at the first "/"
\* after the prefix; the name is all that follows the infix.
subscriptionRe(rawSubscription) ==
    IF ~StartsWith(rawSubscription, ProjectsPrefix) THEN Null
    ELSE LET rest == Drop(rawSubscription, Len(ProjectsPrefix))
             slashes == {i \in 1..Len(rest) : rest[i] = "/"}
         IN  IF slashes = {} THEN Null
             ELSE LET first == CHOOSE i \in slashes : \A k \in slashes : i <= k
                      projectId == SubSeq(rest, 1, first - 1)
                      tail == Drop(rest, first - 1)
                  IN  IF /\ projectId # <<>>
                         /\ MatchesProjectId(projectId)
                         /\ StartsWith(tail, SubscriptionsInfix)
                      THEN LET name == Drop(tail, Len(SubscriptionsInfix))
                           IN  IF /\ name # <<>>
                                  /\ \A i \in 1..Len(name) : name[i] \notin LineTerminators
                               THEN NonNull(name)
                               ELSE Null
                      ELSE Null

\* Variant: the expression without its ^projects\/ anchor, matched anywhere.
getSubscription_Unanchored(rawSubscription) ==
    LET starts == {i \in 2..Len(rawSubscription) :
                     /\ StartsWith(Drop(rawSubscription, i - 1), SubscriptionsInfix)
                     /\ rawSubscription[i - 1] \in LowerOrDash \cup Digits}
    IN  IF starts = {} THEN Null
        ELSE LET first == CHOOSE i \in starts : \A k \in starts : i <= k
                 name == Drop(rawSubscription, first - 1 + Len(SubscriptionsInfix))
             IN  IF name # <<>> THEN NonNull(name) ELSE Null

getSubscription(rawSubscription) == subscriptionRe(rawSubscription)

\* [messageId, '-', subscription].join('')
buildKey(messageId, subscription) == messageId \o <<"-">> \o subscription

\* ---------------------------------------------------------------- payloads

\* Buffer.from(base64Data, 'base64').toString() on the payloads delivered here.
Base64Decode(base64Data) ==
    CASE base64Data = "eyJpZCI6MTJ9" -> "{\"id\":12}"
      [] base64Data = "eyJ0b1N0cmluZyI6MX0=" -> "{\"toString\":1}"
      [] base64Data = "bm90IGpzb24=" -> "not json"

\* JSON.parse: a SyntaxError, or the parsed value (its type and own keys).
JSONParse(stringJson) ==
    CASE stringJson = "{\"id\":12}" ->
           [threw |-> FALSE, type |-> "object", keys |-> {"id"}]
      [] stringJson = "{\"toString\":1}" ->
           [threw |-> FALSE, type |-> "object", keys |-> {"toString"}]
      [] stringJson = "not json" ->
           [threw |-> TRUE, type |-> "none", keys |-> {}]

base64ToParsedJSON(base64Data) == JSONParse(Base64Decode(base64Data))

\* `${untypedJsonData}` : ToString of an object calls its toString, then its
\* valueOf; a parsed object whose own "toString" key shadows
\* Object.prototype.toString has no callable toString, and valueOf returns
\* the object itself, so the conversion throws a TypeError.
TemplateThrows(json) ==
    /\ json.type = "object"
    /\ "toString" \in json.keys

\* ------------------------------------------------------------- registration

\* Names the decoding table (an object literal) registers.
Sub_a_b == <<"a","-","b">>
Sub_b == <<"b">>
Sub_x == <<"x">>
Sub_constructor == <<"c","o","n","s","t","r","u","c","t","o","r">>

Registered == {Sub_a_b, Sub_b}

\* Property names every object literal inherits from Object.prototype.
ObjectPrototypeKeys == {Sub_constructor}

\* this.decoders[subscription] : "own" (a registered {validator, handler}),
\* "inherited" (a truthy value of Object.prototype, with neither a validator
\* nor a handler property) or "undefined".
Lookup(subscription) ==
    IF subscription \in Registered THEN "own"
    ELSE IF subscription \in ObjectPrototypeKeys THEN "inherited"
    ELSE "undefined"

\* ------------------------------------------------------------------ inputs

Address(projectAndRest) == ProjectsPrefix \o projectAndRest

Addr(name) == Address(<<"p">> \o SubscriptionsInfix \o name)

\* Wrong literal prefix: project/p/subscriptions/b
Addr_wrongPrefix ==
    <<"p","r","o","j","e","c","t","/">> \o <<"p">> \o SubscriptionsInfix \o Sub_b

\* Missing segment: projects/p/b
Addr_missingSegment == Address(<<"p","/","b">>)

MalformedAddresses == {Addr_wrongPrefix, Addr_missingSegment}

Id_1 == <<"1">>
Id_1_a == <<"1","-","a">>

Msg(subscription, messageId, data) ==
    [subscription |-> subscription, messageId |-> messageId, data |-> data]

\* The envelopes the transport delivers.
Envelopes ==
    { Msg(Addr(Sub_a_b), Id_1, "eyJpZCI6MTJ9"),
      Msg(Addr(Sub_b), Id_1_a, "eyJpZCI6MTJ9"),
      Msg(Addr(Sub_b), Id_1_a, "bm90IGpzb24="),
      Msg(Addr(Sub_b), Id_1_a, "eyJ0b1N0cmluZyI6MX0="),
      Msg(Addr(Sub_x), Id_1, "eyJpZCI6MTJ9"),
      Msg(Addr(Sub_constructor), Id_1, "eyJpZCI6MTJ9"),
      Msg(Addr_wrongPrefix, Id_1, "eyJpZCI6MTJ9"),
      Msg(Addr_missingSegment, Id_1, "eyJpZCI6MTJ9") }

NoMsg == Msg(<<>>, <<>>, "")

\* What a validator call does: returns a truthy payload, returns a falsy
\* payload (0, false, '', null), returns undefined, or throws.
ValidatorOutcomes == {"payload", "falsy", "undefined", "throws"}

\* What a handler call does: throws before returning a promise, or returns a
\* promise that settles as below: [Success], [FailedToProcess, reason],
\* [FailedToProcess], [FailedToProcess, ''], or a rejection.
HandlerSettlements ==
    {"success", "failed_reason", "failed", "failed_empty", "rejects"}

\* The reason of [FailedToProcess, reason].
HandlerReason == "boom"

\* ------------------------------------------------------------------ ledger

InProgress == "in_progress"
Completed == "completed"
Failed == "failed"

\* An optional value: <<>> is undefined, <<v>> is v.
Undefined == <<>>

Some(v) == <<v>>

\* JavaScript truthiness of an optional string.
Truthy(opt) == opt # Undefined /\ opt[1] # ""

\* Map.get
CacheGet(map, key) == IF key \in DOMAIN map THEN Some(map[key]) ELSE Undefined

\* Variant: the Map is replaced by one that holds the new entry only.
CacheSet_OnlyKey(map, key, event) ==
    [k \in {key} |-> event]

\* Map.set
CacheSet(map, key, event) ==
    [k \in DOMAIN map \cup {key} |-> IF k = key THEN event ELSE map[k]]

\* Variant: the record is looked up by the messageId alone.
getPubSubEvent_ByMessageId(map, messageId, subscription) ==
    CacheGet(map, messageId)

\* InMemoryStateManager.getPubSubEvent
getPubSubEvent(map, messageId, subscription) ==
    CacheGet(map, buildKey(messageId, subscription))

\* Variant: a retry appends a fresh InProgress marker to the history.
recordMessageReceived_Reappend(rawMessage, subscription, cachedEvent, today) ==
    IF cachedEvent # Undefined
    THEN [cachedEvent[1] EXCEPT !.last_run_at = today,
                                !.attempt_statuses = Append(@, InProgress)]
    ELSE [idempotency_key |-> buildKey(rawMessage.messageId, subscription),
          last_run_at |-> today,
          created_at |-> today,
          attempt_statuses |-> <<InProgress>>,
          last_failure_reason |-> Undefined,
          subscription |-> subscription,
          base64_event_data |-> rawMessage.data]

\* Variant: a new record is keyed by the messageId alone.
recordMessageReceived_KeyIsMessageId(rawMessage, subscription, cachedEvent, today) ==
    IF cachedEvent # Undefined
    THEN [cachedEvent[1] EXCEPT !.last_run_at = today]
    ELSE [idempotency_key |-> rawMessage.messageId,
          last_run_at |-> today,
          created_at |-> today,
          attempt_statuses |-> <<InProgress>>,
          last_failure_reason |-> Undefined,
          subscription |-> subscription,
          base64_event_data |-> rawMessage.data]

\* Variant: a new record starts with an empty history (no attempt marker).
recordMessageReceived_NoMarker(rawMessage, subscription, cachedEvent, today) ==
    IF cachedEvent # Undefined
    THEN [cachedEvent[1] EXCEPT !.last_run_at = today]
    ELSE [idempotency_key |-> buildKey(rawMessage.messageId, subscription),
          last_run_at |-> today,
          created_at |-> today,
          attempt_statuses |-> <<>>,
          last_failure_reason |-> Undefined,
          subscription |-> subscription,
          base64_event_data |-> rawMessage.data]

\* Variant: a retry stamps created_at as well as last_run_at.
recordMessageReceived_ResetCreated(rawMessage, subscription, cachedEvent, today) ==
    IF cachedEvent # Undefined
    THEN [cachedEvent[1] EXCEPT !.last_run_at = today, !.created_at = today]
    ELSE [idempotency_key |-> buildKey(rawMessage.messageId, subscription),
          last_run_at |-> today,
          created_at |-> today,
          attempt_statuses |-> <<InProgress>>,
          last_failure_reason |-> Undefined,
          subscription |-> subscription,
          base64_event_data |-> rawMessage.data]

\* The event recordMessageReceived stores and returns.
recordMessageReceived(rawMessage, subscription, cachedEvent, today) ==
    IF cachedEvent # Undefined
    THEN [cachedEvent[1] EXCEPT !.last_run_at = today]
    ELSE [idempotency_key |-> buildKey(rawMessage.messageId, subscription),
          last_run_at |-> today,
          created_at |-> today,
          attempt_statuses |-> <<InProgress>>,
          last_failure_reason |-> Undefined,
          subscription |-> subscription,
          base64_event_data |-> rawMessage.data]

\* Variant: the outcome overwrites the latest status (a single status field).
recordMessageProcessingOutcome_Overwrite(cachedEvent, outcome, failureReason) ==
    [cachedEvent EXCEPT
        !.attempt_statuses = [@ EXCEPT ![Len(@)] = outcome],
        !.last_failure_reason = IF Truthy(failureReason) THEN failureReason ELSE @]

\* Variant: the reason is stored as given, without falling back to the
\* reason the record already has.
recordMessageProcessingOutcome_ClearReason(cachedEvent, outcome, failureReason) ==
    [cachedEvent EXCEPT
        !.attempt_statuses = Append(@, outcome),
        !.last_failure_reason = failureReason]

\* Variant: the record is stored again without the outcome (concat dropped).
recordMessageProcessingOutcome_NoAppend(cachedEvent, outcome, failureReason) ==
    [cachedEvent EXCEPT
        !.last_failure_reason = IF Truthy(failureReason) THEN failureReason ELSE @]

\* Variant: the outcome is put in front of the history (unshift for concat).
recordMessageProcessingOutcome_Prepend(cachedEvent, outcome, failureReason) ==
    [cachedEvent EXCEPT
        !.attempt_statuses = <<outcome>> \o @,
        !.last_failure_reason = IF Truthy(failureReason) THEN failureReason ELSE @]

\* Variant: an outcome given without a reason is stored with a default one.
recordMessageProcessingOutcome_DefaultReason(cachedEvent, outcome, failureReason) ==
    [cachedEvent EXCEPT
        !.attempt_statuses = Append(@, outcome),
        !.last_failure_reason =
            IF Truthy(failureReason) THEN failureReason ELSE Some("unknown")]

\* The event recordMessageProcessingOutcome stores.
recordMessageProcessingOutcome(cachedEvent, outcome, failureReason) ==
    [cachedEvent EXCEPT
        !.attempt_statuses = Append(@, outcome),
        !.last_failure_reason = IF Truthy(failureReason) THEN failureReason ELSE @]

\* Variant: lastIndex is the length, one past the most recent status, so the
\* status read there is undefined and never equals Completed.
MostRecentIsCompleted_OffByOne(cachedMessage) ==
    /\ cachedMessage # Undefined
    /\ Len(cachedMessage[1].attempt_statuses) > 0
    /\ LET lastIndex == Len(cachedMessage[1].attempt_statuses) + 1
       IN  /\ lastIndex \in DOMAIN cachedMessage[1].attempt_statuses
           /\ cachedMessage[1].attempt_statuses[lastIndex] = Completed

\* Variant: the oldest status is inspected instead of the most recent one.
MostRecentIsCompleted_Oldest(cachedMessage) ==
    /\ cachedMessage # Undefined
    /\ Len(cachedMessage[1].attempt_statuses) > 0
    /\ cachedMessage[1].attempt_statuses[1] = Completed

\* Variant: any recorded outcome suppresses, Failed as well as Completed.
MostRecentIsCompleted_AnyOutcome(cachedMessage) ==
    /\ cachedMessage # Undefined
    /\ Len(cachedMessage[1].attempt_statuses) > 0
    /\ cachedMessage[1].attempt_statuses[Len(cachedMessage[1].attempt_statuses)]
         # InProgress

\* cachedMessage && attempt_statuses.length > 0 && last status === Completed
MostRecentIsCompleted(cachedMessage) ==
    /\ cachedMessage # Undefined
    /\ Len(cachedMessage[1].attempt_statuses) > 0
    /\ cachedMessage[1].attempt_statuses[Len(cachedMessage[1].attempt_statuses)]
         = Completed

\* ----------------------------------------------------------------- results

InvalidSubscription == "invalid_subscription"
InvalidEventData == "invalid_event_data"
MissingHandlerForSubscription == "missing_handler_for_subscription"
HandlerFailedToProcessMessage == "handler_failed_to_process_message"

\* The admission has not returned.
Pending == [kind |-> "pending", error |-> "", reason |-> <<>>]

\* handlePubSubMessage resolved with undefined.
NoError == [kind |-> "ok", error |-> "", reason |-> <<>>]

\* handlePubSubMessage resolved with {error, reason}.
Error(error, reason) == [kind |-> "error", error |-> error, reason |-> reason]

\* handlePubSubMessage rejected: a fault escaped.
Fault(error) == [kind |-> "fault", error |-> error, reason |-> <<>>]

\* The failure reason a settled handler promise yields, after .catch.
FailureReasonOf(settlement) ==
    CASE settlement = "failed_reason" -> Some(HandlerReason)
      [] settlement = "failed_empty" -> Some("")
      [] settlement = "rejects" ->
           Some("uncaught promise rejection within handler - Error: err")
      [] OTHER -> Undefined

\* The reason text of HandlerFailedToProcessMessage.
HandlerFailedReason(failureReason) ==
    <<"Handler for subscription failed to process successfully. ">>
      \o (IF Truthy(failureReason)
          THEN <<"Failure reason: ", failureReason[1]>>
          ELSE <<"">>)

\* try { validator(data) } catch: "ok" only for a truthy return value; an
\* undefined validator (destructured from an inherited property) throws a
\* TypeError inside the try.
handleValidator(validator, outcome) ==
    IF validator = "own" /\ outcome = "payload" THEN "ok" ELSE "error"

\* What calling the destructured validator does: a registered validator does
\* what it does; the validator of an inherited property is undefined.
ValidatorCall(subscriptionHandler, outcome) ==
    IF subscriptionHandler = "own" THEN outcome ELSE "not_a_function"

\* ------------------------------------------------------------------- state

VARIABLES
    cache,                 \* InMemoryStateManager.cache : key -> PubSubEvent
    now,                   \* the clock, as new Date() last read it
    admissions,            \* handlePubSubMessage calls made so far
    pc,                    \* per task: "idle", or the await it is suspended at
    rawMsg,                \* per task: the argument rawMsg
    subscription,          \* per task: the local subscription
    cachedMessage,         \* per task: the local cachedMessage (optional)
    updatedCachedMessage,  \* per task: the local updatedCachedMessage (optional)
    lateCall,              \* per task: its handler was invoked for an acked key
    returned,              \* the call that returned in the last step, if any
    acked,                 \* keys for which some call has returned no error
    overlap,               \* keys of which two calls have been in flight at once
    failures,              \* key -> calls returned HandlerFailedToProcessMessage
    impure,                \* keys with a call that returned anything else
    succeeded,             \* (messageId, subscription) pairs whose handler returned Success
    transport,             \* the calls made by publish and on the transport client
    deferred               \* outcome writes a StateManager has accepted and not yet made

locals == <<rawMsg, subscription, cachedMessage, updatedCachedMessage, lateCall>>

history == <<acked, overlap, failures, impure, succeeded>>

vars == <<cache, now, admissions, pc, locals, returned, history, transport, deferred>>

KeyOf(t) == buildKey(rawMsg[t].messageId, subscription[t])

InFlight(t) == pc[t] # "idle"

\* Tasks are interchangeable: a new call takes the first idle one.
TaskBefore(u, t) == u = "t1" /\ t = "t2"

Count(f, key) == IF key \in DOMAIN f THEN f[key] ELSE 0

\* A returned call: its argument, the subscription it resolved, the record its
\* getPubSubEvent read, its result, what its validator and its handler did,
\* the handler invocations and the ledger operations it made, and whether
\* its key was acked before it returned, or when its handler was invoked.
Call(msg, sub, before, res, validated, settled, calls, ops, ackedBefore, late) ==
    [rawMsg |-> msg, subscription |-> sub, before |-> before, result |-> res,
     validated |-> validated, settled |-> settled, calls |-> calls, ops |-> ops,
     ackedBefore |-> ackedBefore, lateCall |-> late]

NoCall == Call(NoMsg, <<>>, Undefined, Pending, "none", "none", 0, <<>>, FALSE, FALSE)

JustReturned == returned.result.kind # "pending"

ReturnedKey == buildKey(returned.rawMsg.messageId, returned.subscription)

Init ==
    /\ cache = <<>>
    /\ now = 0
    /\ admissions = 0
    /\ pc = [t \in Tasks |-> "idle"]
    /\ rawMsg = [t \in Tasks |-> NoMsg]
    /\ subscription = [t \in Tasks |-> <<>>]
    /\ cachedMessage = [t \in Tasks |-> Undefined]
    /\ updatedCachedMessage = [t \in Tasks |-> Undefined]
    /\ lateCall = [t \in Tasks |-> FALSE]
    /\ returned = NoCall
    /\ acked = {}
    /\ overlap = {}
    /\ failures = <<>>
    /\ impure = {}
    /\ succeeded = {}
    /\ transport = <<>>
    /\ deferred = {}

\* The call of task t returns res (a return statement, or an escaping fault);
\* its locals go out of scope.
Return(t, res, validated, settled, calls, ops) ==
    /\ pc' = [pc EXCEPT ![t] = "idle"]
    /\ rawMsg' = [rawMsg EXCEPT ![t] = NoMsg]
    /\ subscription' = [subscription EXCEPT ![t] = <<>>]
    /\ cachedMessage' = [cachedMessage EXCEPT ![t] = Undefined]
    /\ updatedCachedMessage' = [updatedCachedMessage EXCEPT ![t] = Undefined]
    /\ lateCall' = [lateCall EXCEPT ![t] = FALSE]
    /\ returned' = Call(rawMsg[t], subscription[t], cachedMessage[t], res,
                        validated, settled, calls, ops,
                        KeyOf(t) \in acked,
                        IF pc[t] = "handling" THEN lateCall[t]
                        ELSE calls > 0 /\ KeyOf(t) \in acked)
    /\ acked' = IF res.kind = "ok" THEN acked \cup {KeyOf(t)} ELSE acked
    /\ succeeded' = IF settled = "success"
                    THEN succeeded \cup {<<rawMsg[t].messageId, subscription[t]>>}
                    ELSE succeeded
    /\ IF res.kind = "error" /\ res.error = HandlerFailedToProcessMessage
       THEN /\ failures' = CacheSet(failures, KeyOf(t), Count(failures, KeyOf(t)) + 1)
            /\ impure' = impure
       ELSE /\ failures' = failures
            /\ impure' = impure \cup {KeyOf(t)}

\* handlePubSubMessage(msg) is called and runs to its first await:
\* getSubscription, the InvalidSubscription return, the call of getPubSubEvent.
Admit(t, msg) ==
    /\ pc[t] = "idle"
    /\ \A u \in Tasks : pc[u] = "idle" => ~TaskBefore(u, t)
    /\ admissions < MaxAdmissions
    /\ UNCHANGED <<transport, deferred>>
    /\ admissions' = admissions + 1
    /\ LET parsed == getSubscription(msg.subscription)
       IN  IF parsed.null
           THEN /\ returned' =
                       Call(msg, <<>>, Undefined,
                            Error(InvalidSubscription,
                                  <<"Subscription \"null\" doesn't follow the pattern">>),
                            "none", "none", 0, <<>>, FALSE, FALSE)
                /\ UNCHANGED <<cache, now, pc, locals, history>>
           ELSE /\ rawMsg' = [rawMsg EXCEPT ![t] = msg]
                /\ subscription' = [subscription EXCEPT ![t] = parsed.value]
                /\ cachedMessage' = [cachedMessage EXCEPT ![t] =
                       getPubSubEvent(cache, msg.messageId, parsed.value)]
                /\ pc' = [pc EXCEPT ![t] = "got"]
                /\ overlap' =
                       IF \E u \in Tasks \ {t} :
                              /\ InFlight(u)
                              /\ KeyOf(u) = buildKey(msg.messageId, parsed.value)
                       THEN overlap \cup {buildKey(msg.messageId, parsed.value)}
                       ELSE overlap
                /\ returned' = NoCall
                /\ UNCHANGED <<cache, now, updatedCachedMessage, lateCall,
                               acked, failures, impure, succeeded>>

\* The values new Date() may return when the clock last read now: the clock
\* never runs backwards, and only the order of its readings matters, so a
\* later reading is numbered next.
ClockReadings == {now, IF now < MaxClock THEN now + 1 ELSE now}

\* Resumed after getPubSubEvent: the idempotency short-circuit, or the call of
\* recordMessageReceived, whose new Date() reads the clock.
AfterGet(t) ==
    /\ pc[t] = "got"
    /\ IF MostRecentIsCompleted(cachedMessage[t])
       THEN /\ Return(t, NoError, "none", "none", 0, <<"getPubSubEvent">>)
            /\ UNCHANGED <<cache, now, admissions, overlap, transport, deferred>>
       ELSE \E today \in ClockReadings :
            LET event == recordMessageReceived(rawMsg[t], subscription[t],
                                               cachedMessage[t], today)
            IN  /\ now' = today
                /\ cache' = CacheSet(cache, event.idempotency_key, event)
                /\ updatedCachedMessage' =
                       [updatedCachedMessage EXCEPT ![t] = Some(event)]
                /\ pc' = [pc EXCEPT ![t] = "received"]
                /\ returned' = NoCall
                /\ UNCHANGED <<admissions, rawMsg, subscription,
                               cachedMessage, lateCall, history, transport,
                               deferred>>

\* Resumed after recordMessageReceived: the handler lookup, the decode, the
\* validation and the call of the handler.
AfterReceived(t) ==
    /\ pc[t] = "received"
    /\ UNCHANGED <<cache, now, admissions, overlap, transport, deferred>>
    /\ LET subscriptionHandler == Lookup(subscription[t])
           untypedJsonData == base64ToParsedJSON(rawMsg[t].data)
           ops == <<"getPubSubEvent", "recordMessageReceived">>
       IN  IF subscriptionHandler = "undefined"
           THEN Return(t, Error(MissingHandlerForSubscription,
                                <<"Subscription doesn't have a corresponding handler">>),
                       "none", "none", 0, ops)
           ELSE IF untypedJsonData.threw
           THEN Return(t, Fault("SyntaxError"), "none", "none", 0, ops)
           ELSE \E v \in ValidatorOutcomes, h \in {"throws", "returns"} :
                  LET validated == ValidatorCall(subscriptionHandler, v)
                  IN  IF handleValidator(subscriptionHandler, validated) = "error"
                      THEN Return(t, IF TemplateThrows(untypedJsonData)
                                     THEN Fault("TypeError")
                                     ELSE Error(InvalidEventData,
                                                <<"Data for subscription did not pass validation">>),
                                  validated, "none", 0, ops)
                      ELSE IF h = "throws"
                      THEN Return(t, Fault("HandlerError"), validated, "throws", 1, ops)
                      ELSE /\ pc' = [pc EXCEPT ![t] = "handling"]
                           /\ lateCall' = [lateCall EXCEPT ![t] = KeyOf(t) \in acked]
                           /\ returned' = NoCall
                           /\ UNCHANGED <<rawMsg, subscription, cachedMessage,
                                          updatedCachedMessage, acked, failures,
                                          impure, succeeded>>

\* Variant: a handler that did not return Success is invoked a second time
\* before the failure is recorded (an internal retry).
HandlerSettles_RetryOnce(t, s) ==
    /\ pc[t] = "handling"
    /\ UNCHANGED <<now, admissions, overlap, transport, deferred>>
    /\ LET event == updatedCachedMessage[t][1]
           failureReason == FailureReasonOf(s)
           ops == <<"getPubSubEvent", "recordMessageReceived",
                    "recordMessageProcessingOutcome">>
       IN  IF s = "success"
           THEN /\ cache' = CacheSet(cache, event.idempotency_key,
                       recordMessageProcessingOutcome(event, Completed, Undefined))
                /\ Return(t, NoError, "payload", s, 1, ops)
           ELSE /\ cache' = CacheSet(cache, event.idempotency_key,
                       recordMessageProcessingOutcome(event, Failed, failureReason))
                /\ Return(t, Error(HandlerFailedToProcessMessage,
                                   HandlerFailedReason(failureReason)),
                          "payload", s, 2, ops)

\* Resumed after the handler's promise settled (through its .catch): the call
\* of recordMessageProcessingOutcome and the return.
HandlerSettles(t, s) ==
    /\ pc[t] = "handling"
    /\ UNCHANGED <<now, admissions, overlap, transport, deferred>>
    /\ LET event == updatedCachedMessage[t][1]
           failureReason == FailureReasonOf(s)
           ops == <<"getPubSubEvent", "recordMessageReceived",
                    "recordMessageProcessingOutcome">>
       IN  IF s = "success"
           THEN /\ cache' = CacheSet(cache, event.idempotency_key,
                       recordMessageProcessingOutcome(event, Completed, Undefined))
                /\ Return(t, NoError, "payload", s, 1, ops)
           ELSE /\ cache' = CacheSet(cache, event.idempotency_key,
                       recordMessageProcessingOutcome(event, Failed, failureReason))
                /\ Return(t, Error(HandlerFailedToProcessMessage,
                                   HandlerFailedReason(failureReason)),
                          "payload", s, 1, ops)

Next ==
    \/ \E t \in Tasks, msg \in Envelopes : Admit(t, msg)
    \/ \E t \in Tasks : AfterGet(t)
    \/ \E t \in Tasks : AfterReceived(t)
    \/ \E t \in Tasks, s \in HandlerSettlements : HandlerSettles(t, s)

Spec == Init /\ [][Next]_vars

\* ------------------------------------------- addresses of any project id

\* Characters of project ids: a lower-case letter, a hyphen, a digit, an
\* upper-case letter, an underscore.
ProjectIdChars == {"a", "-", "1", "A", "_"}

ProjectIds == UNION {[1..n -> ProjectIdChars] : n \in 1..MaxProjectIdLen}

SubscriptionNames == {Sub_b, Sub_a_b}

\* projects/<project id>/subscriptions/<name>
ShapedAddress(projectId, name) == Address(projectId \o SubscriptionsInfix \o name)

ShapedAddresses ==
    {ShapedAddress(projectId, name) :
        projectId \in ProjectIds, name \in SubscriptionNames}

\* handlePubSubMessage called with envelopes of every such address, and of
\* the malformed ones: each call runs getSubscription and, for a name, stops
\* at its first await.
AnyAddressEnvelopes ==
    {Msg(address, Id_1, "eyJpZCI6MTJ9") :
        address \in ShapedAddresses \cup MalformedAddresses}

NextAnyAddress == \E t \in Tasks, msg \in AnyAddressEnvelopes : Admit(t, msg)

SpecAnyAddress == Init /\ [][NextAnyAddress]_vars

\* -------------------------------------------- a StateManager that can fail

\* A customStateManager is any implementation of the StateManager interface:
\* each of its operations returns a promise, which may reject (or the call
\* may throw before returning one).  Below, the ledger is the Map as above,
\* except that an operation may fail instead of taking effect.

\* The awaited getPubSubEvent rejects: the rejection leaves handlePubSubMessage.
LedgerGetFails(t) ==
    /\ pc[t] = "got"
    /\ Return(t, Fault("LedgerError"), "none", "none", 0,
              <<"getPubSubEvent:failed">>)
    /\ UNCHANGED <<cache, now, admissions, overlap, transport, deferred>>

\* The awaited recordMessageReceived rejects.
LedgerReceivedFails(t) ==
    /\ pc[t] = "got"
    /\ ~MostRecentIsCompleted(cachedMessage[t])
    /\ Return(t, Fault("LedgerError"), "none", "none", 0,
              <<"getPubSubEvent", "recordMessageReceived:failed">>)
    /\ UNCHANGED <<cache, now, admissions, overlap, transport, deferred>>

\* recordMessageProcessingOutcome fails after the handler's promise settled
\* as s.  The call is not awaited: when it throws before returning a promise
\* the exception leaves handlePubSubMessage; when the promise it returned
\* rejects, nothing awaits it and handlePubSubMessage returns as usual.
LedgerOutcomeFails(t, s, how) ==
    /\ pc[t] = "handling"
    /\ UNCHANGED <<cache, now, admissions, overlap, transport, deferred>>
    /\ LET ops == <<"getPubSubEvent", "recordMessageReceived",
                    "recordMessageProcessingOutcome:failed">>
       IN  IF how = "throws"
           THEN Return(t, Fault("LedgerError"), "payload", s, 1, ops)
           ELSE IF s = "success"
           THEN Return(t, NoError, "payload", s, 1, ops)
           ELSE Return(t, Error(HandlerFailedToProcessMessage,
                                HandlerFailedReason(FailureReasonOf(s))),
                       "payload", s, 1, ops)

NextLedgerFaults ==
    \/ Next
    \/ \E t \in Tasks : LedgerGetFails(t)
    \/ \E t \in Tasks : LedgerReceivedFails(t)
    \/ \E t \in Tasks, s \in HandlerSettlements, how \in {"throws", "rejects"} :
          LedgerOutcomeFails(t, s, how)

SpecLedgerFaults == Init /\ [][NextLedgerFaults]_vars

\* ------------------------------- a StateManager that writes asynchronously

\* A customStateManager may do its work after an await of its own (a query
\* to a database): the promise recordMessageProcessingOutcome returns is then
\* still pending when the call returns it.  handlePubSubMessage does not await
\* that promise, so it returns at once, and the write is made later.

\* The handler's promise settled as s; recordMessageProcessingOutcome is
\* called and returns a pending promise; handlePubSubMessage returns.
OutcomeDeferred(t, s) ==
    /\ pc[t] = "handling"
    /\ UNCHANGED <<cache, now, admissions, overlap, transport>>
    /\ LET event == updatedCachedMessage[t][1]
           failureReason == FailureReasonOf(s)
           ops == <<"getPubSubEvent", "recordMessageReceived",
                    "recordMessageProcessingOutcome:pending">>
       IN  IF s = "success"
           THEN /\ deferred' = deferred \cup
                       {recordMessageProcessingOutcome(event, Completed, Undefined)}
                /\ Return(t, NoError, "payload", s, 1, ops)
           ELSE /\ deferred' = deferred \cup
                       {recordMessageProcessingOutcome(event, Failed, failureReason)}
                /\ Return(t, Error(HandlerFailedToProcessMessage,
                                   HandlerFailedReason(failureReason)),
                          "payload", s, 1, ops)

\* A pending recordMessageProcessingOutcome makes its write.
OutcomeLands(event) ==
    /\ event \in deferred
    /\ cache' = CacheSet(cache, event.idempotency_key, event)
    /\ deferred' = deferred \ {event}
    /\ returned' = NoCall
    /\ UNCHANGED <<now, admissions, pc, locals, history, transport>>

NextDeferredLedger ==
    \/ Next
    \/ \E t \in Tasks, s \in HandlerSettlements : OutcomeDeferred(t, s)
    \/ \E event \in deferred : OutcomeLands(event)

SpecDeferredLedger == Init /\ [][NextDeferredLedger]_vars

\* -------------------------------------------------------------- publishing

\* The projectId the PubSub object was constructed with.
ProjectId == "test-project-id"

Topics == {"quote_approved", "quote_rejected"}

\* The data handed to publish, as JSON text.
PublishData == {"{\"id\":12}", "{}", "null"}

\* How the promise of publishJSON settles: it resolves, or rejects with an error.
TransportOutcomes == {"resolves", "NotFound", "Unavailable"}

\* One call: of publish itself, of the GooglePubSub constructor, of a method
\* of the client, or the settling of publish's own promise ("return").
TransportCall(call, args, settled) ==
    [call |-> call, args |-> args, settled |-> settled]

\* A publish that calls publishJSON again when it rejected.
publish_Retry(projectId, topic, data, outcome) ==
    <<TransportCall("publish", <<topic, data>>, ""),
      TransportCall("GooglePubSub", <<projectId>>, ""),
      TransportCall("topic", <<topic>>, ""),
      TransportCall("publishJSON", <<data>>, outcome)>>
    \o (IF outcome = "resolves" THEN <<>>
        ELSE <<TransportCall("publishJSON", <<data>>, "resolves")>>)
    \o <<TransportCall("return", <<>>, "undefined")>>

\* publish(topic, data): new GooglePubSub({ projectId }), then
\* await pubSub.topic(topic).publishJSON(data); a rejection of the awaited
\* promise rejects publish's promise with the same error.
publish(projectId, topic, data, outcome) ==
    <<TransportCall("publish", <<topic, data>>, ""),
      TransportCall("GooglePubSub", <<projectId>>, ""),
      TransportCall("topic", <<topic>>, ""),
      TransportCall("publishJSON", <<data>>, outcome),
      TransportCall("return", <<>>,
                    IF outcome = "resolves" THEN "undefined" ELSE outcome)>>

\* The calls of publish made so far.
Published == Cardinality({i \in DOMAIN transport : transport[i].call = "publish"})

\* A call of publish, to its settling.  It shares nothing with other calls:
\* its client is its own, and it uses no field but projectId.
Publish(topic, data, outcome) ==
    /\ Published < MaxPublishes
    /\ transport' = transport \o publish(ProjectId, topic, data, outcome)
    /\ UNCHANGED <<cache, now, admissions, pc, locals, returned, history, deferred>>

NextPublish ==
    \E topic \in Topics, data \in PublishData, outcome \in TransportOutcomes :
        Publish(topic, data, outcome)

SpecPublish == Init /\ [][NextPublish]_vars

\* -------------------------------------------------------------- redelivery

\* One message of a registered subscription, delivered again and again.
RedeliveredEnvelope == Msg(Addr(Sub_b), Id_1_a, "eyJpZCI6MTJ9")

RedeliveredKey == buildKey(Id_1_a, Sub_b)

NextRedelivery ==
    \/ \E t \in Tasks : Admit(t, RedeliveredEnvelope)
    \/ \E t \in Tasks : AfterGet(t)
    \/ \E t \in Tasks : AfterReceived(t)
    \/ \E t \in Tasks, s \in HandlerSettlements : HandlerSettles(t, s)

\* The promises of the in-memory ledger are resolved when they are returned,
\* so a call suspended at either await of a ledger operation is resumed.
\* Nothing in the code makes a delivery arrive or a handler's promise settle.
SpecRedelivery ==
    /\ Init
    /\ [][NextRedelivery]_vars
    /\ \A t \in Tasks : WF_vars(AfterGet(t)) /\ WF_vars(AfterReceived(t))

\* ------------------------------------------------------------------ claims

Last(seq) == seq[Len(seq)]

\* n copies of status.
Repeat(status, n) == [i \in 1..n |-> status]

\* The stored history a returned call started from: what its getPubSubEvent
\* read, or the attempt marker of a record it created.
HistoryBefore(call) ==
    IF call.before = Undefined THEN <<InProgress>>
    ELSE call.before[1].attempt_statuses

StoredHistory(key) == cache[key].attempt_statuses

ShortCircuited(call) ==
    /\ call.result = NoError
    /\ call.ops = <<"getPubSubEvent">>

\* C1 as stated: once a call for key K has returned no error, every call for K
\* that returns later, one already in flight included, returns no error, and
\* no handler is invoked for K any more.
C1_IdempotencyAnyInterleaving ==
    (JustReturned /\ returned.ackedBefore) =>
        /\ returned.result = NoError
        /\ ~returned.lateCall

\* C1, amended: as long as no two calls for key K have been in flight at the
\* same time, once a call for K has returned no error every later call for K
\* returns no error and does not invoke the handler.
C1_Idempotency ==
    (JustReturned /\ returned.ackedBefore /\ ReturnedKey \notin overlap) =>
        /\ returned.result = NoError
        /\ returned.calls = 0

C1_Witness ==
    /\ JustReturned
    /\ returned.ackedBefore
    /\ ReturnedKey \notin overlap
    /\ ShortCircuited(returned)
    /\ returned.calls = 0
    /\ Last(StoredHistory(ReturnedKey)) = Completed

\* C2: a call whose handler returns FailedToProcess invokes the handler once
\* and returns HandlerFailedToProcessMessage; when the calls for its key do
\* not overlap, it leaves the stored history one Failed entry longer than it
\* found it, and after n such calls (and no others) the history is
\* InProgress followed by n Failed entries.
C2_RetryProgression ==
    /\ (JustReturned /\ returned.settled \in {"failed", "failed_reason"}) =>
          /\ returned.result.kind = "error"
          /\ returned.result.error = HandlerFailedToProcessMessage
          /\ returned.calls = 1
    /\ (/\ JustReturned
        /\ returned.result.error = HandlerFailedToProcessMessage
        /\ ReturnedKey \notin overlap) =>
          StoredHistory(ReturnedKey) = Append(HistoryBefore(returned), Failed)
    /\ \A key \in DOMAIN failures :
          (/\ key \notin overlap
           /\ key \notin impure
           /\ \A t \in Tasks : InFlight(t) => KeyOf(t) # key) =>
             StoredHistory(key) = <<InProgress>> \o Repeat(Failed, failures[key])

C2_Witness ==
    /\ JustReturned
    /\ returned.settled \in {"failed", "failed_reason"}
    /\ returned.result.error = HandlerFailedToProcessMessage
    /\ ReturnedKey \notin overlap \cup impure
    /\ Count(failures, ReturnedKey) = 2
    /\ StoredHistory(ReturnedKey) = <<InProgress, Failed, Failed>>

\* C3 as stated: distinct (messageId, subscription) pairs have distinct ledger
\* keys, so the record a call reads from the ledger, and may short-circuit
\* on, is always one created under the call's own subscription.
C3_ChannelIsolation ==
    /\ \A t \in Tasks :
          (InFlight(t) /\ cachedMessage[t] # Undefined) =>
             cachedMessage[t][1].subscription = subscription[t]
    /\ (JustReturned /\ returned.before # Undefined) =>
          returned.before[1].subscription = returned.subscription

\* C4 as stated: when the validator throws or returns undefined, the call
\* returns InvalidEventData, no fault escapes and the handler is not invoked.
C4_ValidatorFailureIsolation ==
    (JustReturned /\ returned.validated \in {"throws", "undefined"}) =>
        /\ returned.result.kind = "error"
        /\ returned.result.error = InvalidEventData
        /\ returned.calls = 0

\* C5 as stated: when a call returns InvalidEventData, the stored history of
\* its key ends with Failed.
C5_InvalidDataRecordedFailed ==
    (JustReturned /\ returned.result.error = InvalidEventData) =>
        Last(StoredHistory(ReturnedKey)) = Failed

\* C6 as stated, for the decode step: a payload that is not base64-encoded
\* JSON, delivered to a registered channel whose key is not completed, makes
\* the call return InvalidEventData with a reason; and a call in which
\* neither a validator nor a handler ran never ends with an escaping fault.
C6_DecodeErrorClassified ==
    /\ (/\ JustReturned
        /\ returned.subscription \in Registered
        /\ returned.rawMsg.data = "bm90IGpzb24="
        /\ ~ShortCircuited(returned)) =>
          /\ returned.result.kind = "error"
          /\ returned.result.error = InvalidEventData
          /\ returned.result.reason # <<>>
    /\ (/\ JustReturned
        /\ returned.validated = "none"
        /\ returned.settled = "none") =>
          returned.result.kind # "fault"

\* C7 as stated: when the handler raises an exception or its promise rejects,
\* the call returns HandlerFailedToProcessMessage, having stored Failed and
\* the synthesized reason.
C7_HandlerFaultIsolation ==
    (JustReturned /\ returned.settled \in {"throws", "rejects"}) =>
        /\ returned.result.kind = "error"
        /\ returned.result.error = HandlerFailedToProcessMessage
        /\ Last(StoredHistory(ReturnedKey)) = Failed
        /\ Truthy(cache[ReturnedKey].last_failure_reason)

\* C8: the first call for an unseen key, with an accepting validator and a
\* handler that returns Success, returns no error after exactly one handler
\* invocation and leaves the history [InProgress, Completed].
C8_SuccessPath ==
    (/\ JustReturned
     /\ returned.before = Undefined
     /\ returned.validated = "payload"
     /\ returned.settled = "success") =>
        /\ returned.result = NoError
        /\ returned.calls = 1
        /\ ReturnedKey \in DOMAIN cache
        /\ StoredHistory(ReturnedKey) = <<InProgress, Completed>>

C8_Witness ==
    /\ JustReturned
    /\ returned.before = Undefined
    /\ returned.validated = "payload"
    /\ returned.settled = "success"
    /\ returned.result = NoError
    /\ StoredHistory(ReturnedKey) = <<InProgress, Completed>>

\* C9 as stated: a call with a well-formed address whose name the registration
\* map has no entry for returns MissingHandlerForSubscription, invokes neither
\* a validator nor a handler, leaves a record for its key ([InProgress] when
\* it was unseen) and appends no outcome.
C9_MissingHandler ==
    (/\ JustReturned
     /\ returned.rawMsg.subscription \notin MalformedAddresses
     /\ returned.subscription \notin Registered
     /\ ~ShortCircuited(returned)) =>
        /\ returned.result.kind = "error"
        /\ returned.result.error = MissingHandlerForSubscription
        /\ returned.validated = "none"
        /\ returned.calls = 0
        /\ returned.ops = <<"getPubSubEvent", "recordMessageReceived">>
        /\ ReturnedKey \in DOMAIN cache
        /\ StoredHistory(ReturnedKey) = HistoryBefore(returned)

\* The whole call of a malformed address is this step.
MalformedCallReturns ==
    /\ returned' # NoCall
    /\ returned'.rawMsg.subscription \in MalformedAddresses

\* C10: a call whose address does not match the pattern returns
\* InvalidSubscription, issues no ledger operation, invokes neither a
\* validator nor a handler, and leaves the ledger as it was.
C10_MalformedAddress ==
    /\ [](( /\ JustReturned
            /\ returned.rawMsg.subscription \in MalformedAddresses) =>
              /\ returned.result.kind = "error"
              /\ returned.result.error = InvalidSubscription
              /\ returned.ops = <<>>
              /\ returned.validated = "none"
              /\ returned.calls = 0)
    /\ [][MalformedCallReturns => cache' = cache]_vars

C10_Witness ==
    /\ JustReturned
    /\ returned.rawMsg.subscription = Addr_wrongPrefix
    /\ returned.result.error = InvalidSubscription
    /\ returned.ops = <<>>
    /\ cache # <<>>

\* The record a returned call read ends with Completed.
FoundCompleted(call) ==
    /\ call.before # Undefined
    /\ call.before[1].attempt_statuses # <<>>
    /\ Last(call.before[1].attempt_statuses) = Completed

\* The step in which a call that found a Completed record returns.
ShortCircuitReturns ==
    /\ returned' # NoCall
    /\ FoundCompleted(returned')

\* C11: a call that finds a record whose most recent status is Completed
\* returns no error, invokes neither a validator nor a handler, issues no
\* ledger operation after its getPubSubEvent, and its return leaves the whole
\* ledger, that record's last_run_at and attempt_statuses included, as it was.
C11_ShortCircuitFrame ==
    /\ []((JustReturned /\ FoundCompleted(returned)) =>
             /\ returned.result = NoError
             /\ returned.validated = "none"
             /\ returned.calls = 0
             /\ returned.ops = <<"getPubSubEvent">>)
    /\ [][ShortCircuitReturns => cache' = cache]_vars

C11_Witness ==
    /\ JustReturned
    /\ FoundCompleted(returned)
    /\ returned.result = NoError
    /\ returned.ops = <<"getPubSubEvent">>
    /\ cache[ReturnedKey] = returned.before[1]

\* Completed occurs in statuses at the last position or not at all.
CompletedOnlyLast(statuses) ==
    \A i \in 1..(Len(statuses) - 1) : statuses[i] # Completed

HasCompleted(statuses) == \E i \in 1..Len(statuses) : statuses[i] = Completed

\* C12 as stated: no stored history has Completed anywhere but last, and,
\* given as the same thing, once the stored history of a key holds Completed
\* nothing more is appended for that key: its history stays as it is.
C12_NothingAfterCompleted ==
    /\ [](\A key \in DOMAIN cache : CompletedOnlyLast(StoredHistory(key)))
    /\ [][\A key \in DOMAIN cache :
             HasCompleted(StoredHistory(key)) =>
                 cache'[key].attempt_statuses = StoredHistory(key)]_vars

\* C12, amended: in every reachable ledger state, under any interleaving, no
\* stored history, and no record a call holds, has Completed at a position
\* other than the last.
C12_TerminalCompleted ==
    /\ \A key \in DOMAIN cache : CompletedOnlyLast(StoredHistory(key))
    /\ \A t \in Tasks :
          /\ cachedMessage[t] # Undefined =>
                CompletedOnlyLast(cachedMessage[t][1].attempt_statuses)
          /\ updatedCachedMessage[t] # Undefined =>
                CompletedOnlyLast(updatedCachedMessage[t][1].attempt_statuses)

\* A call in flight when another call for its key stored Completed appends
\* its own Completed.
C12_Witness ==
    /\ JustReturned
    /\ returned.ackedBefore
    /\ returned.settled = "success"
    /\ returned.calls = 1
    /\ StoredHistory(ReturnedKey) = <<InProgress, Completed>>

IsPrefix(s, t) ==
    /\ Len(s) <= Len(t)
    /\ SubSeq(t, 1, Len(s)) = s

\* C13 as stated: across every ledger transition, under any interleaving of
\* the admissions of a key, the stored history before the transition is a
\* prefix of the stored history after it, so no stored entry is ever removed
\* or replaced.
C13_AppendOnly ==
    [][\A key \in DOMAIN cache :
          /\ key \in DOMAIN cache'
          /\ IsPrefix(StoredHistory(key), cache'[key].attempt_statuses)]_vars

\* The returned call refreshed its record: it called recordMessageReceived
\* with the record it had read.
Refreshed(call) ==
    /\ call.before # Undefined
    /\ Len(call.ops) >= 2
    /\ call.ops[2] = "recordMessageReceived"

\* C14 as stated: every stored record has created_at <= last_run_at; the
\* stored last_run_at of a key never decreases from one ledger state to the
\* next, under any interleaving; and a call that does not overlap another
\* call for its key, made at a clock value other than the last_run_at it
\* found, leaves a strictly larger last_run_at.
C14_Timestamps ==
    /\ [](\A key \in DOMAIN cache : cache[key].created_at <= cache[key].last_run_at)
    /\ [][\A key \in DOMAIN cache :
             /\ key \in DOMAIN cache'
             /\ cache'[key].last_run_at >= cache[key].last_run_at]_vars
    /\ [](( /\ JustReturned
            /\ Refreshed(returned)
            /\ ReturnedKey \notin overlap
            /\ cache[ReturnedKey].last_run_at # returned.before[1].last_run_at) =>
              cache[ReturnedKey].last_run_at > returned.before[1].last_run_at)

\* The step in which the call of task t creates a record: its
\* recordMessageReceived runs without a cachedEvent.
Creates(t) ==
    /\ pc[t] = "got"
    /\ pc'[t] = "received"
    /\ cachedMessage[t] = Undefined

\* C15 as stated: no call creates a fresh record (new created_at, history
\* [InProgress]) for a key that already has a record in the ledger, so of
\* the concurrent calls for an unseen key at most one creates its record.
C15_AtomicCreation ==
    [][\A t \in Tasks : Creates(t) => KeyOf(t) \notin DOMAIN cache]_vars

\* A ledger operation the returned call issued failed.
LedgerFailed(call) ==
    \E i \in 1..Len(call.ops) :
        call.ops[i] \in {"getPubSubEvent:failed", "recordMessageReceived:failed",
                         "recordMessageProcessingOutcome:failed"}

\* C16 as stated: a call one of whose ledger operations (getPubSubEvent,
\* recordMessageReceived, recordMessageProcessingOutcome) failed does not
\* return no error; the failure leaves the call as a fault.
C16_LedgerFailureNotAcknowledged ==
    (JustReturned /\ LedgerFailed(returned)) =>
        /\ returned.result # NoError
        /\ returned.result.kind = "fault"

\* The status a call records for what its handler did.
OutcomeOf(settled) == IF settled = "success" THEN Completed ELSE Failed

\* The returned call's handler returned a promise that settled.
HandlerSettled(call) == call.settled \in HandlerSettlements

\* C17: a call for a key of which two calls have overlapped returns what its
\* own handler's outcome says (no error after Success,
\* HandlerFailedToProcessMessage after a failure), whatever another call for
\* the key returned; and when it returns, its recordMessageProcessingOutcome
\* being the last to have run, the stored history is the one it wrote: the
\* history it started from with its own outcome appended.
C17_RacePolicy ==
    (JustReturned /\ ReturnedKey \in overlap /\ HandlerSettled(returned)) =>
        /\ returned.settled = "success" => returned.result = NoError
        /\ returned.settled # "success" =>
              /\ returned.result.kind = "error"
              /\ returned.result.error = HandlerFailedToProcessMessage
        /\ StoredHistory(ReturnedKey) =
              Append(HistoryBefore(returned), OutcomeOf(returned.settled))

\* The other call for the key returned no error first; this one failed, and
\* its record is the one left in the ledger.
C17_Witness ==
    /\ JustReturned
    /\ ReturnedKey \in overlap
    /\ returned.ackedBefore
    /\ returned.settled = "failed"
    /\ returned.result.error = HandlerFailedToProcessMessage
    /\ StoredHistory(ReturnedKey) = <<InProgress, Failed>>
    /\ \A t \in Tasks : ~InFlight(t)

\* The last_failure_reason of the record a returned call started from.
ReasonBefore(call) ==
    IF call.before = Undefined THEN Undefined
    ELSE call.before[1].last_failure_reason

StoredReason(key) == cache[key].last_failure_reason

\* The handler's promise settled as a failure that carries a reason string.
FailedWithReason(call) ==
    call.settled \in {"failed_reason", "failed_empty", "rejects"}

\* C18 as stated: after a call whose handler failed with a reason r, whatever
\* string r is, the stored last_failure_reason is r; after a call whose
\* handler failed without a reason or succeeded it is what it was before;
\* and it differs from what it was only after a failure with a reason.
C18_LastFailureReasonAnyReason ==
    (JustReturned /\ HandlerSettled(returned)) =>
        /\ FailedWithReason(returned) =>
              StoredReason(ReturnedKey) = FailureReasonOf(returned.settled)
        /\ ~FailedWithReason(returned) =>
              StoredReason(ReturnedKey) = ReasonBefore(returned)
        /\ StoredReason(ReturnedKey) # ReasonBefore(returned) =>
              FailedWithReason(returned)

\* C18, amended: after a call whose handler failed with a non-empty reason
\* r the stored last_failure_reason is r; after a call whose handler failed
\* without a reason or with the empty string as its reason, or succeeded,
\* it is the reason of the record the call started from.
C18_LastFailureReason ==
    (JustReturned /\ HandlerSettled(returned)) =>
        LET failureReason == FailureReasonOf(returned.settled)
        IN  /\ (FailedWithReason(returned) /\ failureReason # Some("")) =>
                  StoredReason(ReturnedKey) = failureReason
            /\ (~FailedWithReason(returned) \/ failureReason = Some("")) =>
                  StoredReason(ReturnedKey) = ReasonBefore(returned)

\* A success after a failure with a reason keeps that reason.
C18_Witness ==
    /\ JustReturned
    /\ returned.settled = "success"
    /\ ReasonBefore(returned) = Some(HandlerReason)
    /\ StoredReason(ReturnedKey) = Some(HandlerReason)
    /\ Last(StoredHistory(ReturnedKey)) = Completed

ReturnedInvalidEventData(call) ==
    /\ call.result.kind = "error"
    /\ call.result.error = InvalidEventData

\* C19 as stated, on a registered channel: whenever the validator returns a
\* payload, a falsy one (0, false, '', null) included, validation succeeds
\* and the handler is invoked; InvalidEventData is returned only when the
\* validator returned undefined or threw.
C19_ValidatorContract ==
    (JustReturned /\ returned.subscription \in Registered) =>
        /\ returned.validated \in {"payload", "falsy"} =>
              /\ returned.calls = 1
              /\ ~ReturnedInvalidEventData(returned)
        /\ ReturnedInvalidEventData(returned) =>
              returned.validated \in {"undefined", "throws"}

\* What the resolver is to return for the address: the name N of
\* projects/P/subscriptions/N, null for a string not of that shape.
ExpectedSubscription(address) ==
    IF address \in ShapedAddresses
    THEN LET name == CHOOSE n \in SubscriptionNames :
                         \E projectId \in ProjectIds :
                             address = ShapedAddress(projectId, n)
         IN  NonNull(name)
    ELSE Null

\* C20 as stated: for every project id P (lower-case or upper-case letters,
\* hyphens, underscores and digits in any order) and name N, a call with the
\* address projects/P/subscriptions/N resolves N, and a call that returns
\* InvalidSubscription was given a string not of that shape.
C20_SubscriptionResolver ==
    /\ \A t \in Tasks :
          InFlight(t) =>
             ExpectedSubscription(rawMsg[t].subscription) = NonNull(subscription[t])
    /\ (JustReturned /\ returned.result.error = InvalidSubscription) =>
          ExpectedSubscription(returned.rawMsg.subscription) = Null

\* The calls of the n-th call of publish, which makes five: publish itself,
\* the constructor, topic, publishJSON and the settling of its promise.
PublishTrace(n) == SubSeq(transport, 5 * n - 4, 5 * n)

PassedThrough(trace) ==
    LET topic == trace[1].args[1]
        data == trace[1].args[2]
        outcome == trace[4].settled
    IN  /\ trace[1].call = "publish"
        /\ trace[2] = TransportCall("GooglePubSub", <<ProjectId>>, "")
        /\ trace[3] = TransportCall("topic", <<topic>>, "")
        /\ trace[4] = TransportCall("publishJSON", <<data>>, outcome)
        /\ trace[5] = TransportCall("return", <<>>,
                           IF outcome = "resolves" THEN "undefined" ELSE outcome)

\* C21: every call of publish(topic, data) constructs one client for the
\* configured project id, calls topic(topic) once and publishJSON(data) once
\* with the arguments it was given, and settles as publishJSON did (the same
\* error, no second publishJSON); a step that publishes leaves the ledger
\* and every admission as they were.  (The registration map is fixed at
\* construction: nothing writes it.)
C21_PublisherPassThrough ==
    /\ [](/\ Len(transport) = 5 * Published
          /\ \A n \in 1..Published : PassedThrough(PublishTrace(n)))
    /\ [][transport' # transport =>
              UNCHANGED <<cache, now, admissions, pc, locals, returned, history>>]_vars

C21_Witness ==
    /\ Published = 2
    /\ PublishTrace(1)[4].settled = "Unavailable"
    /\ PublishTrace(2)[4].settled = "resolves"
    /\ PublishTrace(1)[1].args # PublishTrace(2)[1].args

IdentityFields(event) ==
    <<event.idempotency_key, event.created_at, event.base64_event_data>>

\* C22: no step changes the idempotency_key, the created_at or the
\* base64_event_data of a stored record, or removes the record.
C22_WriteOnceIdentity ==
    [][\A key \in DOMAIN cache :
          /\ key \in DOMAIN cache'
          /\ IdentityFields(cache'[key]) = IdentityFields(cache[key])]_vars

\* Task t is resumed from getPubSubEvent and calls recordMessageReceived.
RecordsAttempt(t) == pc[t] = "got" /\ pc'[t] = "received"

\* C23: the step in which a call runs recordMessageReceived stores, under the
\* call's key, the record the call gets back, and changes nothing else of the
\* ledger; with a prior record that record is the prior one with last_run_at
\* set to the time read (no status appended, every other field as it was);
\* with none it is a new record with attempt_statuses = [InProgress] and
\* created_at = last_run_at.
C23_RecordAttemptFrame ==
    [][\A t \in Tasks : RecordsAttempt(t) =>
          LET prior == cachedMessage[t]
              event == updatedCachedMessage'[t][1]
          IN  /\ cache' = CacheSet(cache, KeyOf(t), event)
              /\ event.last_run_at = now'
              /\ prior # Undefined =>
                    event = [prior[1] EXCEPT !.last_run_at = now']
              /\ prior = Undefined =>
                    /\ event.attempt_statuses = <<InProgress>>
                    /\ event.created_at = event.last_run_at
                    /\ event.idempotency_key = KeyOf(t)
                    /\ event.subscription = subscription[t]
                    /\ event.base64_event_data = rawMsg[t].data
                    /\ event.last_failure_reason = Undefined]_vars

\* A retry of a failed record has been stamped with a later time.
C23_Witness ==
    \E t \in Tasks :
        /\ pc[t] = "received"
        /\ cachedMessage[t] # Undefined
        /\ Last(cachedMessage[t][1].attempt_statuses) = Failed
        /\ updatedCachedMessage[t][1].last_run_at > cachedMessage[t][1].last_run_at
        /\ cachedMessage[t][1].last_failure_reason # Undefined
        /\ cache[KeyOf(t)] = updatedCachedMessage[t][1]

\* Task t is a retry: its getPubSubEvent read a record ending in Failed, its
\* recordMessageReceived is done, and its outcome is not recorded yet.
Retrying(t) ==
    /\ pc[t] \in {"received", "handling"}
    /\ cachedMessage[t] # Undefined
    /\ Last(cachedMessage[t][1].attempt_statuses) = Failed

\* C24 as claimed: while a retry of a failed key is between its
\* recordMessageReceived and the recording of its outcome, the most recent
\* entry of the key's stored history is InProgress.
C24_RetryIsInProgress ==
    \A t \in Tasks :
        Retrying(t) /\ KeyOf(t) \notin overlap =>
            Last(StoredHistory(KeyOf(t))) = InProgress

\* C24: while a retry of a failed key that overlaps no other call of the key
\* is between its recordMessageReceived and the recording of its outcome,
\* the stored history is the one it found, so its most recent entry is still
\* Failed; the stored record differs from the one found in last_run_at only.
C24_RetryStaysFailed ==
    \A t \in Tasks :
        Retrying(t) /\ KeyOf(t) \notin overlap =>
            /\ StoredHistory(KeyOf(t)) = cachedMessage[t][1].attempt_statuses
            /\ Last(StoredHistory(KeyOf(t))) = Failed
            /\ cache[KeyOf(t)] = updatedCachedMessage[t][1]

C24_Witness ==
    \E t \in Tasks :
        /\ Retrying(t)
        /\ pc[t] = "handling"
        /\ KeyOf(t) \notin overlap
        /\ StoredHistory(KeyOf(t)) = <<InProgress, Failed>>
        /\ cache[KeyOf(t)].last_run_at > cache[KeyOf(t)].created_at

\* The call's getPubSubEvent read a record whose last status is not Completed.
FoundUnfinished(call) ==
    /\ call.before # Undefined
    /\ Last(call.before[1].attempt_statuses) \in {InProgress, Failed}

\* C25: a call that found a record ending in InProgress or in Failed is not
\* short-circuited: it goes on to recordMessageReceived, and when its
\* subscription is registered and its validator returned a payload it
\* invokes the handler, once.
C25_OnlyCompletedSuppresses ==
    (JustReturned /\ FoundUnfinished(returned)) =>
        /\ ~ShortCircuited(returned)
        /\ Len(returned.ops) >= 2
        /\ returned.ops[2] = "recordMessageReceived"
        /\ (returned.subscription \in Registered /\ returned.validated = "payload") =>
              returned.calls = 1

\* A call that found InProgress, left by a call whose handler is still
\* running, has invoked the handler itself.
C25_Witness ==
    /\ JustReturned
    /\ FoundUnfinished(returned)
    /\ Last(returned.before[1].attempt_statuses) = InProgress
    /\ returned.calls = 1
    /\ \E u \in Tasks : pc[u] = "handling" /\ KeyOf(u) = ReturnedKey

HoldsMarker(key) == key \in DOMAIN cache /\ StoredHistory(key) # <<>>

\* The call ran user code: its validator was called or its handler invoked.
RanUserCode(call) == call.validated # "none" \/ call.calls > 0

\* C26: a call that is about to run its validator and handler (resumed from
\* recordMessageReceived) or whose handler is running has the record that
\* recordMessageReceived returned, and the ledger holds a record of its key
\* with a non-empty history; a returned call that ran its validator or its
\* handler ran recordMessageReceived before.
C26_MarkerPrecedesUserCode ==
    /\ \A t \in Tasks : pc[t] \in {"received", "handling"} =>
          /\ updatedCachedMessage[t] # Undefined
          /\ HoldsMarker(KeyOf(t))
    /\ (JustReturned /\ RanUserCode(returned)) =>
          /\ Len(returned.ops) >= 2
          /\ returned.ops[1] = "getPubSubEvent"
          /\ returned.ops[2] = "recordMessageReceived"
          /\ HoldsMarker(ReturnedKey)

\* The handler of a first admission is running, the marker is stored.
C26_Witness ==
    \E t \in Tasks :
        /\ pc[t] = "handling"
        /\ cachedMessage[t] = Undefined
        /\ StoredHistory(KeyOf(t)) = <<InProgress>>

\* C27 (I3): the ledger is a map from keys to records, so it holds at most
\* one record per key; the record stored under key k has idempotency_key = k,
\* and its subscription and payload are those of a delivered envelope whose
\* messageId and subscription produce k.
C27_OneRecordPerKey ==
    \A k \in DOMAIN cache :
        /\ cache[k].idempotency_key = k
        /\ \E msg \in Envelopes :
              /\ msg.subscription = Addr(cache[k].subscription)
              /\ buildKey(msg.messageId, cache[k].subscription) = k
              /\ msg.data = cache[k].base64_event_data

\* Two records, one of them under the key that two pairs produce.
C27_Witness ==
    /\ Cardinality(DOMAIN cache) = 2
    /\ buildKey(Id_1, Sub_a_b) \in DOMAIN cache
    /\ cache[buildKey(Id_1, Sub_a_b)].subscription = Sub_b
    /\ Len(StoredHistory(buildKey(Id_1, Sub_a_b))) = 2

\* Task t is called and runs getPubSubEvent.
Gets(t) == pc[t] = "idle" /\ pc'[t] = "got"

\* C28: the step in which a call runs getPubSubEvent(messageId, subscription)
\* leaves the ledger as it was, and the call gets the record stored under the
\* key of the two at that moment, or undefined when the ledger has no
\* record under that key.
C28_GetIsReadOnly ==
    [][\A t \in Tasks : Gets(t) =>
          LET key == buildKey(rawMsg'[t].messageId, subscription'[t])
          IN  /\ cache' = cache
              /\ key \in DOMAIN cache => cachedMessage'[t] = Some(cache[key])
              /\ key \notin DOMAIN cache => cachedMessage'[t] = Undefined]_vars

\* A call has read the only record of the ledger, stored by a call for
\* another pair of the same key.
C28_Witness ==
    \E t \in Tasks :
        /\ pc[t] = "got"
        /\ KeyOf(t) \in DOMAIN cache
        /\ cachedMessage[t] = Some(cache[KeyOf(t)])
        /\ cachedMessage[t][1].subscription # subscription[t]
        /\ Len(cachedMessage[t][1].attempt_statuses) = 2

\* C30: a call that returns no error is a call for a (messageId,
\* subscription) pair whose handler has returned Success, in this call or in
\* an earlier one.
C30_NoFalseAcknowledgment ==
    (JustReturned /\ returned.result = NoError) =>
        <<returned.rawMsg.messageId, returned.subscription>> \in succeeded

\* Every call that returns an error is followed by a later call.
RedeliveredAfterError ==
    \A n \in 1..MaxAdmissions :
        (JustReturned /\ returned.result.kind = "error" /\ admissions = n)
            ~> (admissions > n)

\* Every handler invocation settles.
HandlersTerminate == \A t \in Tasks : []<>(pc[t] # "handling")

\* A call has just returned from a handler invocation that returned Success.
SuccessReturned == JustReturned /\ returned.settled = "success"

\* A call has just returned from a handler invocation that did anything else.
OtherwiseReturned ==
    JustReturned /\ returned.calls > 0 /\ returned.settled # "success"

\* Some handler invocation returns Success, and no invocation that returns
\* after it does anything else.
HandlerSucceedsFromSomeInvocation ==
    <>(SuccessReturned /\ [](~OtherwiseReturned))

CompletedForGood ==
    /\ RedeliveredKey \in DOMAIN cache
    /\ Last(StoredHistory(RedeliveredKey)) = Completed
    /\ JustReturned => returned.result = NoError

ReturnedOutcome(call) ==
    /\ HandlerSettled(call)
    /\ \/ call.result = NoError
       \/ /\ call.result.kind = "error"
          /\ call.result.error = HandlerFailedToProcessMessage

\* C31: when a call returns no error after its handler returned Success, or
\* returns HandlerFailedToProcessMessage, the ledger holds the record of its
\* key with the outcome as the most recent entry of the history the call
\* started from, whether or not the StateManager has finished its write by
\* the time recordMessageProcessingOutcome returns its promise.
C31_OutcomeStoredAtReturn ==
    (JustReturned /\ ReturnedOutcome(returned)) =>
        /\ ReturnedKey \in DOMAIN cache
        /\ StoredHistory(ReturnedKey) =
              Append(HistoryBefore(returned), OutcomeOf(returned.settled))

ReturnedError(call, error) ==
    call.result.kind = "error" /\ call.result.error = error

\* C32: a call invokes the handler at most once; not at all when it returns
\* InvalidSubscription, MissingHandlerForSubscription or InvalidEventData, or
\* when it short-circuits on a Completed record; exactly once when it
\* returns HandlerFailedToProcessMessage.
C32_HandlerInvocationCount ==
    JustReturned =>
        /\ returned.calls \in {0, 1}
        /\ ReturnedError(returned, InvalidSubscription) => returned.calls = 0
        /\ ReturnedError(returned, MissingHandlerForSubscription) => returned.calls = 0
        /\ ReturnedError(returned, InvalidEventData) => returned.calls = 0
        /\ ShortCircuited(returned) => returned.calls = 0
        /\ ReturnedError(returned, HandlerFailedToProcessMessage) => returned.calls = 1

\* A retry of a failed key has failed again, after one handler invocation.
C32_Witness ==
    /\ JustReturned
    /\ ReturnedError(returned, HandlerFailedToProcessMessage)
    /\ returned.calls = 1
    /\ returned.before # Undefined
    /\ Last(returned.before[1].attempt_statuses) = Failed

\* Task t takes a step of its call.
Steps(t) == InFlight(t) /\ pc'[t] # pc[t]

\* C33: a step of a call keeps every record of the ledger, and a record it
\* adds or changes is the one under the call's own key; so the records of
\* every other key are unchanged by it, whatever calls for other keys are in
\* flight.  (What a call reads is the record under its key: C28.  The
\* registration map is fixed at construction: nothing writes it.)
C33_KeyLocalEffects ==
    [][/\ DOMAIN cache \subseteq DOMAIN cache'
       /\ \A k \in DOMAIN cache' :
             (k \notin DOMAIN cache \/ cache'[k] # cache[k]) =>
                 \E t \in Tasks : Steps(t) /\ KeyOf(t) = k]_vars

\* A call has recorded its outcome while a call for another key, whose
\* record is stored, is in flight.
C33_Witness ==
    /\ JustReturned
    /\ HandlerSettled(returned)
    /\ Len(StoredHistory(ReturnedKey)) = 2
    /\ \E u \in Tasks :
          /\ pc[u] = "received"
          /\ KeyOf(u) # ReturnedKey
          /\ StoredHistory(KeyOf(u)) = <<InProgress>>

HistoryShape(event) ==
    LET statuses == event.attempt_statuses
    IN  /\ statuses # <<>>
        /\ statuses[1] = InProgress
        /\ \A i \in 2..Len(statuses) : statuses[i] \in {Completed, Failed}
        /\ event.last_failure_reason # Undefined =>
              \E i \in 2..Len(statuses) : statuses[i] = Failed

\* C34: every stored record has a non-empty attempt_statuses that starts
\* with InProgress and goes on with Completed and Failed entries only, and
\* has a last_failure_reason only if one of its entries is Failed.
C34_HistoryShape ==
    \A k \in DOMAIN cache : HistoryShape(cache[k])

\* A record that failed with a reason and then completed keeps the reason.
C34_Witness ==
    \E k \in DOMAIN cache :
        /\ StoredHistory(k) = <<InProgress, Failed, Completed>>
        /\ cache[k].last_failure_reason = Some(HandlerReason)

====
